---- MODULE Spec2Model ----
(***************************************************************************)
(* The portable recursive lock MXRecLock of lib/lock/ulInt.h, POSIX        *)
(* variant (an exclusive pthread_mutex_t plus a reference count and an     *)
(* owner thread id), with the condition-variable wait that drives it.      *)
(*                                                                         *)
(* Every thread runs the lock's operations one memory access or one native *)
(* call at a time: pc[t] is the place of thread t inside the operation     *)
(* op[t].  vmx86_debug is the build flavour; ASSERT() is compiled in and   *)
(* Panic() guarded by vmx86_debug is reached only in debug builds.         *)
(***************************************************************************)
EXTENDS Integers, FiniteSets

\* ------------------------------------------------------------------ bounds
\* number of threads sharing the lock
NumThreads == 2
\* a thread stops nesting acquisitions at this depth (non-debug builds have
\* no check that stops it)
MaxHold == 17
\* deepest recursion at which a thread calls the condition-variable wait
MaxWaitHold == 3
\* native mutex calls that answer an unexpected error in one run
MaxFaults == 1
\* calls of release by a thread that holds nothing in one run
MaxMisuse == 1
\* calls followed after a native error or a release by a thread that holds
\* nothing
MaxLateCalls == 2
\* depth to which a thread nests its acquisitions in the runs with native
\* errors, with misplaced releases and under fair scheduling
MaxShallowHold == 3
\* calls of MXUserAcquisitionSample in one run
MaxSamples == 3
\* calls of MXUserInternalSingleton by one thread in one run
MaxSingletonCalls == 2

\* --------------------------------------------------------------- constants
MXUSER_MAX_REC_DEPTH == 16
EBUSY == 16
EINVAL == 22
EPERM == 1
\* the "nobody" thread id written by MXRecLockSetNoOwner (all bytes 0xFF)
MXUSER_INVALID_OWNER == -1
\* pthread mutex state "unlocked"
Unlocked == 0

Threads == 1..NumThreads

VARIABLES
    vmx86_debug,     \* build flavour: TRUE in debug builds
    nativeLock,      \* lock->nativeLock: Unlocked or the thread that locked it
    referenceCount,  \* lock->referenceCount
    nativeThreadID,  \* lock->nativeThreadID
    pc,              \* per thread: place in the running operation
    op,              \* per thread: operation being run
    contended,       \* per thread: MXRecLockAcquire's local
    acquired,        \* per thread: MXRecLockTryAcquire's local
    signalled,       \* per thread: result of the native condition wait
    err,             \* per thread: local err
    lockCount,       \* per thread: recursion depth captured by wait
    loaded,          \* per thread: lock->referenceCount as read by += or -=
    panicked,        \* Panic() or a failed ASSERT() ended the process
    destroyed,       \* MXRecLockDestroy completed
    held,            \* history: acquisitions of t not yet released
    started,         \* history: threads that ever called an operation
    heldAtCall,      \* history: another thread held the lock when t called acquire
    heldAtTry,       \* history: another thread held the lock at t's native attempt
    notFree,         \* history: the lock was not free at some point of t's acquire
    count0,          \* history: referenceCount when t's tryAcquire got the mutex
    strayUnlock,     \* pthread_mutex_unlock answered 0 to a thread that had not locked the mutex
    faults,          \* history: native calls that answered an unexpected error
    misuses,         \* history: calls of release by a thread that holds nothing
    lateCalls,       \* history: calls made after a native error or such a release
    acqStats,        \* an MXUserAcquisitionStats
    timeWrapped,     \* history: totalContentionTime went past 2^64 - 1
    storage,         \* the Atomic_Ptr slot of the singleton guard lock
    sPc,             \* per thread: place in MXUserInternalSingleton
    sLock,           \* per thread: the lock it constructs or has found
    locksBuilt,      \* lock instances constructed so far
    locksReady,      \* lock instances whose MXRecLockInit is over
    sReturned,       \* history: the instances callers have returned
    sCalls,          \* history: per thread, its calls that have returned
    sWaited,         \* history: threads that found the slot in progress
    mxuserDebug,     \* build flavour: MXUSER_DEBUG defined (rank tracking)
    rankOwner,       \* per ranked lock: the thread that has it, or NoThread
    rankHeld,        \* per thread: its record of the locks it holds
    rPc,             \* per thread: place in an operation on a ranked lock
    rLock,           \* per thread: the ranked lock of the operation
    rCheck           \* per thread: the checkRank argument of the operation

vars == <<vmx86_debug, nativeLock, referenceCount, nativeThreadID, pc, op,
          contended, acquired, signalled, err, lockCount, loaded, panicked,
          destroyed, held, started, heldAtCall, heldAtTry, notFree, count0, faults,
          misuses, lateCalls, strayUnlock, acqStats, timeWrapped, storage, sPc, sLock,
          locksBuilt,
          locksReady, sReturned, sCalls, sWaited, mxuserDebug, rankOwner,
          rankHeld, rPc, rLock, rCheck>>

lockVars == <<nativeLock, referenceCount, nativeThreadID>>
localVars == <<contended, acquired, signalled, err, lockCount, loaded>>
histVars == <<held, started, heldAtCall, heldAtTry, notFree, count0, faults>>
\* what no step of an operation of the recursive lock changes
otherVars == <<vmx86_debug, misuses, lateCalls, strayUnlock, acqStats, timeWrapped,
               storage, sPc, sLock, locksBuilt, locksReady, sReturned, sCalls, sWaited,
               mxuserDebug, rankOwner, rankHeld, rPc, rLock, rCheck>>
statsVars == <<acqStats, timeWrapped>>
singletonVars == <<storage, sPc, sLock, locksBuilt, locksReady, sReturned,
                   sCalls, sWaited>>
rankVars == <<mxuserDebug, rankOwner, rankHeld, rPc, rLock, rCheck>>
\* what lies outside the recursive lock and its callers
outsideVars == <<statsVars, singletonVars, rankVars>>
\* the recursive lock, its callers and the build
recLockVars == <<vmx86_debug, lockVars, pc, op, localVars, destroyed,
                 histVars, misuses, lateCalls, strayUnlock>>

\* ------------------------------------------------------ uint64 arithmetic
\* a uint64 is kept as four 16-bit limbs, the lowest first
Limb == 65536

U64Carry1(a, b) == (a[1] + b[1]) \div Limb
U64Carry2(a, b) == (a[2] + b[2] + U64Carry1(a, b)) \div Limb
U64Carry3(a, b) == (a[3] + b[3] + U64Carry2(a, b)) \div Limb
\* the carry out of bit 63: the sum does not fit
U64Carry4(a, b) == (a[4] + b[4] + U64Carry3(a, b)) \div Limb

\* a + b modulo 2^64
U64Add(a, b) ==
    << (a[1] + b[1]) % Limb,
       (a[2] + b[2] + U64Carry1(a, b)) % Limb,
       (a[3] + b[3] + U64Carry2(a, b)) % Limb,
       (a[4] + b[4] + U64Carry3(a, b)) % Limb >>

U64Less(a, b) ==
    \E i \in 1..4 : a[i] < b[i] /\ \A j \in (i + 1)..4 : a[j] = b[j]

U64LessEq(a, b) == a = b \/ U64Less(a, b)

U64Min(a, b) == IF U64Less(b, a) THEN b ELSE a

U64Max(a, b) == IF U64Less(a, b) THEN b ELSE a

U64Zero == <<0, 0, 0, 0>>

\* ------------------------------------------------------ uint32 arithmetic
\* a uint32 is kept as two 16-bit limbs, the lower first.
\* (uint32) x of an int x: a negative x becomes 2^32 + x
ToUint32(x) ==
    IF x >= 0 THEN <<x % Limb, x \div Limb>>
              ELSE <<x % Limb, (x \div Limb) + Limb>>

\* (int) u of a uint32 u: values from 2^31 on become u - 2^32
ToInt32(u) ==
    IF u[2] < Limb \div 2 THEN u[2] * Limb + u[1]
                          ELSE (u[2] - Limb) * Limb + u[1]

\* a + b modulo 2^32
U32Add(a, b) ==
    << (a[1] + b[1]) % Limb,
       (a[2] + b[2] + ((a[1] + b[1]) \div Limb)) % Limb >>

\* a - b modulo 2^32
U32Sub(a, b) ==
    << (a[1] - b[1]) % Limb,
       (a[2] - b[2] + ((a[1] - b[1]) \div Limb)) % Limb >>

U32Less(a, b) == a[2] < b[2] \/ (a[2] = b[2] /\ a[1] < b[1])

U32LessEq(a, b) == a = b \/ U32Less(a, b)

\* the elapsed times a caller passes: 0, 1, 2^63 and 2^64 - 1
ElapsedTimes ==
    { U64Zero, <<1, 0, 0, 0>>, <<0, 0, 0, 32768>>,
      <<65535, 65535, 65535, 65535>> }

\* MXUserAcquisitionStatsSetUp: the counters and sums zeroed, the embedded
\* MXUserBasicStats (less timeSquaredSum, a double) included
MXUserAcquisitionStatsSetUp ==
    [ numAttempts |-> 0, numSuccesses |-> 0, numSuccessesContended |-> 0,
      successContentionTime |-> U64Zero, totalContentionTime |-> U64Zero,
      numSamples |-> 0, minTime |-> U64Zero, maxTime |-> U64Zero,
      timeSum |-> U64Zero ]

\* ----------------------------------------------------------------- helpers
Running == ~panicked /\ ~destroyed

\* ASSERT(cond) fails: only debug builds compile the check in
AssertFails(cond) == vmx86_debug /\ ~cond

\* return lock->referenceCount, an int, as the uint32 result
MXRecLockCount == ToUint32(referenceCount)

MXRecLockIsOwner(t) == nativeThreadID = t

\* MXRecLockCount(lock) > 0, the first operand of the ASSERT on the depth,
\* compared as uint32
CountAboveZero == U32Less(ToUint32(0), MXRecLockCount)

\* MXRecLockCount(lock) < MXUSER_MAX_REC_DEPTH, the second operand, a second
\* read of the count
CountBelowMax == U32Less(MXRecLockCount, ToUint32(MXUSER_MAX_REC_DEPTH))

\* thread t is between a successful acquire and its matching final release,
\* and is not parked in a condition wait
InCritical(t) == held[t] > 0 /\ pc[t] # "wait_sleep"

OtherHolds(t) == \E u \in Threads \ {t} : InCritical(u)

\* the lock is in use by a thread other than t
BusyFor(t) == nativeLock \notin {Unlocked, t} \/ OtherHolds(t)

\* release has been called by a thread that holds nothing
misused == misuses > 0

\* a thread calls an operation: the process runs and the thread is inside
\* no operation. Calls go on after a native error and after a release by a
\* thread that holds nothing; the run is followed for MaxLateCalls of them
MayCall(t) ==
    /\ Running /\ pc[t] = "idle"
    /\ IF faults > 0 \/ misused
       THEN lateCalls < MaxLateCalls /\ lateCalls' = lateCalls + 1
       ELSE UNCHANGED lateCalls

\* a native call may answer an unexpected error in the current state
MayFault == faults < MaxFaults

Goto(t, place) == pc' = [pc EXCEPT ![t] = place]

DoPanic == panicked' = TRUE

\* threads other than t that are inside acquire see the lock taken
MarkTaken(t) ==
    notFree' = [u \in Threads |->
                  IF u # t /\ op[u] = "acquire" THEN TRUE ELSE notFree[u]]

\* the ranked locks of the rank-tracking scenario, the rank of a lock and
\* the value of an owner field for "no thread"
RankedLocks == {1, 2}
Rank(l) == l
NoThread == 0

\* the slot of the singleton: empty, claimed by a constructor, or a lock
NULL == 0
InProgress == -1

\* freshly set-up statistics, an empty singleton slot, free ranked locks and
\* empty rank records
OutsideInit ==
    /\ acqStats = MXUserAcquisitionStatsSetUp
    /\ timeWrapped = FALSE
    /\ storage = NULL
    /\ sPc = [t \in Threads |-> "idle"]
    /\ sLock = [t \in Threads |-> NULL]
    /\ locksBuilt = 0
    /\ locksReady = {}
    /\ sReturned = {}
    /\ sCalls = [t \in Threads |-> 0]
    /\ sWaited = {}
    /\ rankOwner = [l \in RankedLocks |-> NoThread]
    /\ rankHeld = [t \in Threads |-> {}]
    /\ rPc = [t \in Threads |-> "idle"]
    /\ rLock = [t \in Threads |-> 0]
    /\ rCheck = [t \in Threads |-> FALSE]

\* MXRecLockInit has run on the lock; no thread has called anything
InitRecLock ==
    /\ vmx86_debug \in BOOLEAN
    /\ nativeLock = Unlocked
    /\ referenceCount = 0
    /\ nativeThreadID = MXUSER_INVALID_OWNER
    /\ pc = [t \in Threads |-> "idle"]
    /\ op = [t \in Threads |-> "none"]
    /\ contended = [t \in Threads |-> FALSE]
    /\ acquired = [t \in Threads |-> FALSE]
    /\ signalled = [t \in Threads |-> FALSE]
    /\ err = [t \in Threads |-> 0]
    /\ lockCount = [t \in Threads |-> ToUint32(0)]
    /\ loaded = [t \in Threads |-> 0]
    /\ panicked = FALSE
    /\ destroyed = FALSE
    /\ held = [t \in Threads |-> 0]
    /\ started = {}
    /\ heldAtCall = [t \in Threads |-> FALSE]
    /\ heldAtTry = [t \in Threads |-> FALSE]
    /\ notFree = [t \in Threads |-> FALSE]
    /\ count0 = [t \in Threads |-> 0]
    /\ faults = 0
    /\ misuses = 0
    /\ lateCalls = 0
    /\ strayUnlock = FALSE

\* a build with rank tracking compiled in
Init == InitRecLock /\ OutsideInit /\ mxuserDebug = TRUE

\* any build
InitRank == InitRecLock /\ OutsideInit /\ mxuserDebug \in BOOLEAN

\* --------------------------------------------------- MXRecLockIncCount
\* the count argument of the running call: wait restores the captured depth
IncArg(t) == IF op[t] = "wait" THEN lockCount[t] ELSE ToUint32(1)

AfterInc(t) ==
    CASE op[t] = "acquire" -> "acq_ret"
      [] op[t] = "tryAcquire" -> "try_assert"
      [] OTHER -> "wait_ret"

\* if (MXRecLockCount(lock) == 0)
IncCountRead(t) ==
    /\ Running /\ pc[t] = "inc_count"
    /\ Goto(t, IF MXRecLockCount = ToUint32(0) THEN "inc_owner" ELSE "inc_load")
    /\ UNCHANGED <<otherVars, lockVars, op, localVars, panicked, destroyed,
                   histVars>>

\* MXRecLockSetOwner(lock)
IncCountSetOwner(t) ==
    /\ Running /\ pc[t] = "inc_owner"
    /\ nativeThreadID' = t
    /\ Goto(t, "inc_load")
    /\ UNCHANGED <<otherVars, nativeLock, referenceCount, op, localVars,
                   panicked, destroyed, histVars>>

\* lock->referenceCount += count, its first half: the field is read
IncCountLoad(t) ==
    /\ Running /\ pc[t] = "inc_load"
    /\ loaded' = [loaded EXCEPT ![t] = referenceCount]
    /\ Goto(t, "inc_add")
    /\ UNCHANGED <<otherVars, lockVars, op, contended, acquired, signalled,
                   err, lockCount, panicked, destroyed, histVars>>

\* IncCountAdd adding 1 whatever its count argument
IncCountAddOne(t) ==
    /\ Running /\ pc[t] = "inc_add"
    /\ referenceCount' = ToInt32(U32Add(ToUint32(loaded[t]), ToUint32(1)))
    /\ loaded' = [loaded EXCEPT ![t] = 0]
    /\ Goto(t, AfterInc(t))
    /\ UNCHANGED <<otherVars, nativeLock, nativeThreadID, op, contended,
                   acquired, signalled, err, lockCount, panicked, destroyed,
                   histVars>>

\* lock->referenceCount += count, its second half: the value read plus the
\* uint32 count, converted back to int, is written to the field
IncCountAdd(t) ==
    /\ Running /\ pc[t] = "inc_add"
    /\ referenceCount' = ToInt32(U32Add(ToUint32(loaded[t]), IncArg(t)))
    /\ loaded' = [loaded EXCEPT ![t] = 0]
    /\ Goto(t, AfterInc(t))
    /\ UNCHANGED <<otherVars, nativeLock, nativeThreadID, op, contended,
                   acquired, signalled, err, lockCount, panicked, destroyed,
                   histVars>>

\* ----------------------------------------------------- MXRecLockAcquire
AcquireCall(t) ==
    /\ MayCall(t) /\ held[t] < MaxHold
    /\ Goto(t, "acq_count")
    /\ op' = [op EXCEPT ![t] = "acquire"]
    /\ started' = started \cup {t}
    /\ heldAtCall' = [heldAtCall EXCEPT ![t] = OtherHolds(t)]
    /\ notFree' = [notFree EXCEPT ![t] = BusyFor(t)]
    /\ UNCHANGED <<vmx86_debug, misuses, strayUnlock, outsideVars, lockVars, localVars, panicked, destroyed,
                   held, heldAtTry, count0, faults>>

\* AcquireCount without the owner test: any thread that reads a count other
\* than 0 takes the re-entrant branch
AcquireCountSkipsOwner(t) ==
    /\ Running /\ pc[t] = "acq_count"
    /\ Goto(t, IF MXRecLockCount # ToUint32(0) THEN "acq_assert" ELSE "acq_try")
    /\ UNCHANGED <<otherVars, lockVars, op, localVars, panicked, destroyed,
                   histVars>>

\* MXRecLockCount(lock) != 0, the first operand of the && of line 268
AcquireCount(t) ==
    /\ Running /\ pc[t] = "acq_count"
    /\ Goto(t, IF MXRecLockCount # ToUint32(0) THEN "acq_owner" ELSE "acq_try")
    /\ UNCHANGED <<otherVars, lockVars, op, localVars, panicked, destroyed,
                   histVars>>

\* AcquireIsOwner with the owner test inverted: the owner goes to the native
\* mutex and every other thread takes the re-entrant branch
AcquireIsOwnerInverted(t) ==
    /\ Running /\ pc[t] = "acq_owner"
    /\ Goto(t, IF MXRecLockIsOwner(t) THEN "acq_try" ELSE "acq_assert")
    /\ UNCHANGED <<otherVars, lockVars, op, localVars, panicked, destroyed,
                   histVars>>

\* MXRecLockIsOwner(lock), the second operand
AcquireIsOwner(t) ==
    /\ Running /\ pc[t] = "acq_owner"
    /\ Goto(t, IF MXRecLockIsOwner(t) THEN "acq_assert" ELSE "acq_try")
    /\ UNCHANGED <<otherVars, lockVars, op, localVars, panicked, destroyed,
                   histVars>>

\* the re-entrant branch: the first operand of the ASSERT of lines 269-270;
\* a build without ASSERT goes straight on
AcquireAssert(t) ==
    /\ Running /\ pc[t] = "acq_assert"
    /\ IF AssertFails(CountAboveZero)
       THEN DoPanic /\ UNCHANGED pc
       ELSE Goto(t, "acq_assert_max") /\ UNCHANGED panicked
    /\ UNCHANGED <<otherVars, lockVars, op, localVars, destroyed, histVars>>

\* the second operand of the ASSERT, on a count read again; contended = FALSE
AcquireAssertMax(t) ==
    /\ Running /\ pc[t] = "acq_assert_max"
    /\ IF AssertFails(CountBelowMax)
       THEN DoPanic /\ UNCHANGED <<pc, contended>>
       ELSE /\ contended' = [contended EXCEPT ![t] = FALSE]
            /\ Goto(t, "inc_count")
            /\ UNCHANGED panicked
    /\ UNCHANGED <<otherVars, lockVars, op, acquired, signalled, err,
                   lockCount, loaded, destroyed, histVars>>

\* AcquireTry going on after EBUSY as after success, the blocking acquire
\* forgotten
AcquireTryBusyGoesOn(t) ==
    /\ Running /\ pc[t] = "acq_try"
    /\ heldAtTry' = [heldAtTry EXCEPT ![t] = OtherHolds(t)]
    /\ IF nativeLock = Unlocked
       THEN /\ nativeLock' = t
            /\ err' = [err EXCEPT ![t] = 0]
            /\ contended' = [contended EXCEPT ![t] = FALSE]
            /\ Goto(t, "acq_check")
            /\ MarkTaken(t)
       ELSE /\ err' = [err EXCEPT ![t] = EBUSY]
            /\ Goto(t, "acq_check")
            /\ UNCHANGED <<nativeLock, contended, notFree>>
    /\ UNCHANGED <<otherVars, referenceCount, nativeThreadID, op, acquired,
                   signalled, lockCount, loaded, panicked, destroyed, held, started,
                   heldAtCall, count0, faults>>

\* err = MXRecLockTryAcquireInternal(lock): pthread_mutex_trylock takes a
\* free mutex and answers EBUSY for a locked one (also to its own locker);
\* EBUSY passes the Panic test of line 279
AcquireTry(t) ==
    /\ Running /\ pc[t] = "acq_try"
    /\ heldAtTry' = [heldAtTry EXCEPT ![t] = OtherHolds(t)]
    /\ IF nativeLock = Unlocked
       THEN /\ nativeLock' = t
            /\ err' = [err EXCEPT ![t] = 0]
            /\ contended' = [contended EXCEPT ![t] = FALSE]
            /\ Goto(t, "acq_check")
            /\ MarkTaken(t)
       ELSE /\ err' = [err EXCEPT ![t] = EBUSY]
            /\ Goto(t, "acq_lock")
            /\ UNCHANGED <<nativeLock, contended, notFree>>
    /\ UNCHANGED <<otherVars, referenceCount, nativeThreadID, op, acquired,
                   signalled, lockCount, loaded, panicked, destroyed, held, started,
                   heldAtCall, count0, faults>>

\* AcquireLock without contended = TRUE
AcquireLockNotContended(t) ==
    /\ Running /\ pc[t] = "acq_lock"
    /\ nativeLock = Unlocked
    /\ nativeLock' = t
    /\ err' = [err EXCEPT ![t] = 0]
    /\ Goto(t, "acq_check")
    /\ MarkTaken(t)
    /\ UNCHANGED <<otherVars, referenceCount, nativeThreadID, op, contended,
                   acquired, signalled, lockCount, loaded, panicked, destroyed, held,
                   started, heldAtCall, heldAtTry, count0, faults>>

\* err = MXRecLockAcquireInternal(lock); contended = TRUE:
\* pthread_mutex_lock returns once the mutex is free and taken
AcquireLock(t) ==
    /\ Running /\ pc[t] = "acq_lock"
    /\ nativeLock = Unlocked
    /\ nativeLock' = t
    /\ err' = [err EXCEPT ![t] = 0]
    /\ contended' = [contended EXCEPT ![t] = TRUE]
    /\ Goto(t, "acq_check")
    /\ MarkTaken(t)
    /\ UNCHANGED <<otherVars, referenceCount, nativeThreadID, op, acquired,
                   signalled, lockCount, loaded, panicked, destroyed, held, started,
                   heldAtCall, heldAtTry, count0, faults>>

\* if (vmx86_debug && (err != 0)) Panic; ASSERT(lock->referenceCount == 0)
AcquireCheck(t) ==
    /\ Running /\ pc[t] = "acq_check"
    /\ IF (vmx86_debug /\ err[t] # 0) \/ AssertFails(referenceCount = 0)
       THEN DoPanic /\ UNCHANGED pc
       ELSE Goto(t, "inc_count") /\ UNCHANGED panicked
    /\ UNCHANGED <<otherVars, lockVars, op, localVars, destroyed, histVars>>

\* return contended
AcquireReturn(t) ==
    /\ Running /\ pc[t] = "acq_ret"
    /\ Goto(t, "idle")
    /\ op' = [op EXCEPT ![t] = "none"]
    /\ contended' = [contended EXCEPT ![t] = FALSE]
    /\ err' = [err EXCEPT ![t] = 0]
    /\ held' = [held EXCEPT ![t] = held[t] + 1]
    /\ heldAtCall' = [heldAtCall EXCEPT ![t] = FALSE]
    /\ heldAtTry' = [heldAtTry EXCEPT ![t] = FALSE]
    /\ notFree' = [notFree EXCEPT ![t] = FALSE]
    /\ UNCHANGED <<otherVars, lockVars, acquired, signalled, lockCount, loaded,
                   panicked, destroyed, started, count0, faults>>

\* -------------------------------------------------- MXRecLockTryAcquire
TryAcquireCall(t) ==
    /\ MayCall(t)
    /\ Goto(t, "try_try")
    /\ op' = [op EXCEPT ![t] = "tryAcquire"]
    /\ started' = started \cup {t}
    /\ UNCHANGED <<vmx86_debug, misuses, strayUnlock, outsideVars, lockVars, localVars, panicked, destroyed,
                   held, heldAtCall, heldAtTry, notFree, count0, faults>>

\* TryAcquireTry taking EBUSY for success: the count is incremented although
\* the native mutex was not obtained
TryAcquireTryIgnoresBusy(t) ==
    /\ Running /\ pc[t] = "try_try"
    /\ nativeLock' = (IF nativeLock = Unlocked THEN t ELSE nativeLock)
    /\ err' = [err EXCEPT ![t] = IF nativeLock = Unlocked THEN 0 ELSE EBUSY]
    /\ count0' = [count0 EXCEPT ![t] = referenceCount]
    /\ Goto(t, "inc_count")
    /\ MarkTaken(t)
    /\ UNCHANGED <<otherVars, referenceCount, nativeThreadID, op, contended,
                   acquired, signalled, lockCount, loaded, panicked, destroyed, held,
                   started, heldAtCall, heldAtTry, faults>>

\* TryAcquireTry over a recursive native mutex: the attempt of the thread
\* that has the mutex succeeds
TryAcquireTryRecursive(t) ==
    /\ Running /\ pc[t] = "try_try"
    /\ IF nativeLock \in {Unlocked, t}
       THEN /\ nativeLock' = t
            /\ err' = [err EXCEPT ![t] = 0]
            /\ count0' = [count0 EXCEPT ![t] = referenceCount]
            /\ Goto(t, "inc_count")
            /\ MarkTaken(t)
            /\ UNCHANGED acquired
       ELSE /\ err' = [err EXCEPT ![t] = EBUSY]
            /\ acquired' = [acquired EXCEPT ![t] = FALSE]
            /\ Goto(t, "try_ret")
            /\ UNCHANGED <<nativeLock, count0, notFree>>
    /\ UNCHANGED <<otherVars, referenceCount, nativeThreadID, op, contended,
                   signalled, lockCount, loaded, panicked, destroyed, held, started,
                   heldAtCall, heldAtTry, faults>>

\* err = MXRecLockTryAcquireInternal(lock); EBUSY: acquired = FALSE
TryAcquireTry(t) ==
    /\ Running /\ pc[t] = "try_try"
    /\ IF nativeLock = Unlocked
       THEN /\ nativeLock' = t
            /\ err' = [err EXCEPT ![t] = 0]
            /\ count0' = [count0 EXCEPT ![t] = referenceCount]
            /\ Goto(t, "inc_count")
            /\ MarkTaken(t)
            /\ UNCHANGED acquired
       ELSE /\ err' = [err EXCEPT ![t] = EBUSY]
            /\ acquired' = [acquired EXCEPT ![t] = FALSE]
            /\ Goto(t, "try_ret")
            /\ UNCHANGED <<nativeLock, count0, notFree>>
    /\ UNCHANGED <<otherVars, referenceCount, nativeThreadID, op, contended,
                   signalled, lockCount, loaded, panicked, destroyed, held, started,
                   heldAtCall, heldAtTry, faults>>

\* the first operand of the ASSERT of lines 313-314
TryAcquireAssert(t) ==
    /\ Running /\ pc[t] = "try_assert"
    /\ IF AssertFails(CountAboveZero)
       THEN DoPanic /\ UNCHANGED pc
       ELSE Goto(t, "try_assert_max") /\ UNCHANGED panicked
    /\ UNCHANGED <<otherVars, lockVars, op, localVars, destroyed, histVars>>

\* the second operand of the ASSERT, on a count read again; acquired = TRUE
TryAcquireAssertMax(t) ==
    /\ Running /\ pc[t] = "try_assert_max"
    /\ IF AssertFails(CountBelowMax)
       THEN DoPanic /\ UNCHANGED <<pc, acquired>>
       ELSE /\ acquired' = [acquired EXCEPT ![t] = TRUE]
            /\ Goto(t, "try_ret")
            /\ UNCHANGED panicked
    /\ UNCHANGED <<otherVars, lockVars, op, contended, signalled, err,
                   lockCount, loaded, destroyed, histVars>>

\* return acquired
TryAcquireReturn(t) ==
    /\ Running /\ pc[t] = "try_ret"
    /\ Goto(t, "idle")
    /\ op' = [op EXCEPT ![t] = "none"]
    /\ acquired' = [acquired EXCEPT ![t] = FALSE]
    /\ err' = [err EXCEPT ![t] = 0]
    /\ held' = [held EXCEPT ![t] = IF acquired[t] THEN held[t] + 1 ELSE held[t]]
    /\ count0' = [count0 EXCEPT ![t] = 0]
    /\ UNCHANGED <<otherVars, lockVars, contended, signalled, lockCount, loaded,
                   panicked, destroyed, started, heldAtCall, heldAtTry, notFree,
                   faults>>

\* --------------------------------------------------- MXRecLockDecCount
\* the count argument of the running call: wait drops the whole depth
DecArg(t) == IF op[t] = "wait" THEN lockCount[t] ELSE ToUint32(1)

AfterDec(t) == IF op[t] = "wait" THEN "wait_cond" ELSE "rel_count"

\* ASSERT(count <= lock->referenceCount): count is a uint32, so the int
\* field is converted and the two are compared as uint32
DecCountAssert(t) ==
    /\ Running /\ pc[t] = "dec_assert"
    /\ IF AssertFails(U32LessEq(DecArg(t), ToUint32(referenceCount)))
       THEN DoPanic /\ UNCHANGED pc
       ELSE Goto(t, "dec_load") /\ UNCHANGED panicked
    /\ UNCHANGED <<otherVars, lockVars, op, localVars, destroyed, histVars>>

\* lock->referenceCount -= count, its first half: the field is read
DecCountLoad(t) ==
    /\ Running /\ pc[t] = "dec_load"
    /\ loaded' = [loaded EXCEPT ![t] = referenceCount]
    /\ Goto(t, "dec_sub")
    /\ UNCHANGED <<otherVars, lockVars, op, contended, acquired, signalled,
                   err, lockCount, panicked, destroyed, histVars>>

\* DecCountSub that leaves the count as it is
DecCountSubForgets(t) ==
    /\ Running /\ pc[t] = "dec_sub"
    /\ loaded' = [loaded EXCEPT ![t] = 0]
    /\ Goto(t, "dec_count")
    /\ UNCHANGED <<otherVars, lockVars, op, contended, acquired, signalled,
                   err, lockCount, panicked, destroyed, histVars>>

\* lock->referenceCount -= count, its second half: the value read minus the
\* uint32 count, converted back to int, is written to the field
DecCountSub(t) ==
    /\ Running /\ pc[t] = "dec_sub"
    /\ referenceCount' = ToInt32(U32Sub(ToUint32(loaded[t]), DecArg(t)))
    /\ loaded' = [loaded EXCEPT ![t] = 0]
    /\ Goto(t, "dec_count")
    /\ UNCHANGED <<otherVars, nativeLock, nativeThreadID, op, contended,
                   acquired, signalled, err, lockCount, panicked, destroyed,
                   histVars>>

\* DecCountRead without the call of MXRecLockSetNoOwner
DecCountReadKeepsOwner(t) ==
    /\ Running /\ pc[t] = "dec_count"
    /\ Goto(t, AfterDec(t))
    /\ UNCHANGED <<otherVars, lockVars, op, localVars, panicked, destroyed,
                   histVars>>

\* if (MXRecLockCount(lock) == 0)
DecCountRead(t) ==
    /\ Running /\ pc[t] = "dec_count"
    /\ Goto(t, IF MXRecLockCount = ToUint32(0) THEN "dec_noowner" ELSE AfterDec(t))
    /\ UNCHANGED <<otherVars, lockVars, op, localVars, panicked, destroyed,
                   histVars>>

\* MXRecLockSetNoOwner(lock)
DecCountSetNoOwner(t) ==
    /\ Running /\ pc[t] = "dec_noowner"
    /\ nativeThreadID' = MXUSER_INVALID_OWNER
    /\ Goto(t, AfterDec(t))
    /\ UNCHANGED <<otherVars, nativeLock, referenceCount, op, localVars,
                   panicked, destroyed, histVars>>

\* ----------------------------------------------------- MXRecLockRelease
\* a thread releases only what it acquired
ReleaseCall(t) ==
    /\ MayCall(t) /\ held[t] > 0
    /\ Goto(t, "rel_assert")
    /\ op' = [op EXCEPT ![t] = "release"]
    /\ started' = started \cup {t}
    /\ UNCHANGED <<vmx86_debug, misuses, strayUnlock, outsideVars, lockVars, localVars, panicked, destroyed,
                   held, heldAtCall, heldAtTry, notFree, count0, faults>>

\* a thread with no acquisition outstanding calls release: MXRecLockRelease
\* takes any caller
ReleaseUnheldCall(t) ==
    /\ MayCall(t) /\ held[t] = 0 /\ misuses < MaxMisuse
    /\ Goto(t, "rel_assert")
    /\ op' = [op EXCEPT ![t] = "release"]
    /\ started' = started \cup {t}
    /\ misuses' = misuses + 1
    /\ UNCHANGED <<vmx86_debug, strayUnlock, outsideVars, lockVars, localVars,
                   panicked, destroyed, held, heldAtCall, heldAtTry, notFree,
                   count0, faults>>

\* the first operand of the ASSERT of lines 345-346
ReleaseAssert(t) ==
    /\ Running /\ pc[t] = "rel_assert"
    /\ IF AssertFails(CountAboveZero)
       THEN DoPanic /\ UNCHANGED pc
       ELSE Goto(t, "rel_assert_max") /\ UNCHANGED panicked
    /\ UNCHANGED <<otherVars, lockVars, op, localVars, destroyed, histVars>>

\* the second operand of the ASSERT, on a count read again
ReleaseAssertMax(t) ==
    /\ Running /\ pc[t] = "rel_assert_max"
    /\ IF AssertFails(CountBelowMax)
       THEN DoPanic /\ UNCHANGED pc
       ELSE Goto(t, "dec_assert") /\ UNCHANGED panicked
    /\ UNCHANGED <<otherVars, lockVars, op, localVars, destroyed, histVars>>

\* the call is over: the locals die and one acquisition is given back
ReleaseDone(t) ==
    /\ Goto(t, "idle")
    /\ op' = [op EXCEPT ![t] = "none"]
    /\ held' = [held EXCEPT ![t] = IF held[t] > 0 THEN held[t] - 1 ELSE 0]

\* ReleaseCount with the test of the count left out: the native mutex is
\* released by every release
ReleaseCountUnlockAlways(t) ==
    /\ Running /\ pc[t] = "rel_count"
    /\ Goto(t, "rel_unlock")
    /\ UNCHANGED <<otherVars, lockVars, op, localVars, panicked, destroyed,
                   histVars>>

\* ReleaseCount off by one: the native mutex is released with one
\* acquisition still outstanding
ReleaseCountAtOne(t) ==
    /\ Running /\ pc[t] = "rel_count"
    /\ IF U32LessEq(MXRecLockCount, ToUint32(1))
       THEN Goto(t, "rel_unlock") /\ UNCHANGED <<op, held>>
       ELSE ReleaseDone(t)
    /\ UNCHANGED <<otherVars, lockVars, localVars, panicked, destroyed,
                   started, heldAtCall, heldAtTry, notFree, count0, faults>>

\* if (MXRecLockCount(lock) == 0), else return
ReleaseCount(t) ==
    /\ Running /\ pc[t] = "rel_count"
    /\ IF MXRecLockCount = ToUint32(0)
       THEN Goto(t, "rel_unlock") /\ UNCHANGED <<op, held>>
       ELSE ReleaseDone(t)
    /\ UNCHANGED <<otherVars, lockVars, localVars, panicked, destroyed,
                   started, heldAtCall, heldAtTry, notFree, count0, faults>>

\* what pthread_mutex_unlock may do and answer: called by the locker it
\* frees the mutex and answers 0; called by another thread the behaviour is
\* undefined, and implementations free the mutex and answer 0 or leave it
\* as it is and answer EPERM
ReleaseInternalResults(t) == IF nativeLock = t THEN {0} ELSE {0, EPERM}

\* ReleaseUnlock without the native unlock
ReleaseUnlockKeeps(t) ==
    /\ Running /\ pc[t] = "rel_unlock"
    /\ ReleaseDone(t)
    /\ UNCHANGED <<otherVars, lockVars, localVars, panicked, destroyed,
                   started, heldAtCall, heldAtTry, notFree, count0, faults>>

\* int err = MXRecLockReleaseInternal(lock);
\* if (vmx86_debug && (err != 0)) Panic, else return
ReleaseUnlock(t) ==
    /\ Running /\ pc[t] = "rel_unlock"
    /\ \E e \in ReleaseInternalResults(t) :
          /\ nativeLock' = IF e = 0 THEN Unlocked ELSE nativeLock
          /\ strayUnlock' = (strayUnlock \/ (nativeLock # t /\ e = 0))
          /\ IF vmx86_debug /\ e # 0
             THEN /\ DoPanic
                  /\ err' = [err EXCEPT ![t] = e]
                  /\ UNCHANGED <<pc, op, held>>
             ELSE ReleaseDone(t) /\ UNCHANGED <<err, panicked>>
    /\ UNCHANGED <<vmx86_debug, misuses, lateCalls, outsideVars, referenceCount, nativeThreadID, contended,
                   acquired, signalled, lockCount, loaded, destroyed, started,
                   heldAtCall, heldAtTry, notFree, count0, faults>>

\* ---------------------------------------------------- MXUserWaitCondVar
\* the owner calls wait
WaitCall(t) ==
    /\ MayCall(t) /\ held[t] > 0 /\ held[t] <= MaxWaitHold
    /\ Goto(t, "wait_count")
    /\ op' = [op EXCEPT ![t] = "wait"]
    /\ started' = started \cup {t}
    /\ UNCHANGED <<vmx86_debug, misuses, strayUnlock, outsideVars, lockVars, localVars, panicked, destroyed,
                   held, heldAtCall, heldAtTry, notFree, count0, faults>>

\* capture the full current recursion depth of the lock; it is then dropped
\* with MXRecLockDecCount(lock, lockCount)
WaitCapture(t) ==
    /\ Running /\ pc[t] = "wait_count"
    /\ lockCount' = [lockCount EXCEPT ![t] = MXRecLockCount]
    /\ Goto(t, "dec_assert")
    /\ UNCHANGED <<otherVars, lockVars, op, contended, acquired, signalled,
                   err, loaded, panicked, destroyed, histVars>>

\* the native wait frees the native mutex and parks the thread in one step
WaitSleep(t) ==
    /\ Running /\ pc[t] = "wait_cond"
    /\ nativeLock' = Unlocked
    /\ Goto(t, "wait_sleep")
    /\ UNCHANGED <<otherVars, referenceCount, nativeThreadID, op, localVars,
                   panicked, destroyed, histVars>>

\* a signal or the timeout wakes the thread; the native wait returns with the
\* native mutex taken again, and the depth is restored with
\* MXRecLockIncCount(lock, lockCount)
WaitWake(t) ==
    /\ Running /\ pc[t] = "wait_sleep"
    /\ nativeLock = Unlocked
    /\ nativeLock' = t
    /\ \E s \in BOOLEAN : signalled' = [signalled EXCEPT ![t] = s]
    /\ Goto(t, "inc_count")
    /\ MarkTaken(t)
    /\ UNCHANGED <<otherVars, referenceCount, nativeThreadID, op, contended,
                   acquired, err, lockCount, loaded, panicked, destroyed, held, started,
                   heldAtCall, heldAtTry, count0, faults>>

\* return signalled
WaitReturn(t) ==
    /\ Running /\ pc[t] = "wait_ret"
    /\ Goto(t, "idle")
    /\ op' = [op EXCEPT ![t] = "none"]
    /\ signalled' = [signalled EXCEPT ![t] = FALSE]
    /\ lockCount' = [lockCount EXCEPT ![t] = ToUint32(0)]
    /\ UNCHANGED <<otherVars, lockVars, contended, acquired, err, loaded,
                   panicked, destroyed, histVars>>

\* ----------------------------------------------------- MXRecLockDestroy
\* what pthread_mutex_destroy may answer: 0 for an unlocked mutex that has
\* been unlocked only by the thread that had locked it. Destroying a locked
\* mutex is undefined, and so is the state of a mutex after an unlock by a
\* thread that had not locked it: implementations answer 0 or EBUSY
DestroyInternalResults ==
    IF nativeLock = Unlocked /\ ~strayUnlock THEN {0} ELSE {0, EBUSY}

\* err = MXRecLockDestroyInternal(lock); if (vmx86_debug && (err != 0)) Panic.
\* Called while no thread is inside an operation on the lock.
MXRecLockDestroy(t) ==
    /\ MayCall(t) /\ \A u \in Threads : pc[u] = "idle"
    /\ \E e \in DestroyInternalResults :
          /\ err' = [err EXCEPT ![t] = e]
          /\ IF vmx86_debug /\ e # 0
             THEN DoPanic /\ UNCHANGED destroyed
             ELSE destroyed' = TRUE /\ UNCHANGED panicked
    /\ started' = started \cup {t}
    /\ UNCHANGED <<vmx86_debug, misuses, strayUnlock, outsideVars, lockVars, pc, op, contended, acquired,
                   signalled, lockCount, loaded, held, heldAtCall, heldAtTry, notFree,
                   count0, faults>>

\* ------------------------------------------------- native mutex failures
\* pthread_mutex_trylock answers an error other than EBUSY: a debug build
\* panics at line 279, any other build goes on to the blocking acquire
AcquireTryFails(t) ==
    /\ MayFault /\ faults' = faults + 1
    /\ Running /\ pc[t] = "acq_try"
    /\ err' = [err EXCEPT ![t] = EINVAL]
    /\ IF vmx86_debug
       THEN DoPanic /\ UNCHANGED pc
       ELSE Goto(t, "acq_lock") /\ UNCHANGED panicked
    /\ UNCHANGED <<otherVars, lockVars, op, contended, acquired, signalled,
                   lockCount, loaded, destroyed, held, started, heldAtCall, heldAtTry,
                   notFree, count0>>

\* pthread_mutex_lock answers an error and the mutex is not taken
AcquireLockFails(t) ==
    /\ MayFault /\ faults' = faults + 1
    /\ Running /\ pc[t] = "acq_lock"
    /\ err' = [err EXCEPT ![t] = EINVAL]
    /\ contended' = [contended EXCEPT ![t] = TRUE]
    /\ Goto(t, "acq_check")
    /\ UNCHANGED <<otherVars, lockVars, op, acquired, signalled, lockCount, loaded,
                   panicked, destroyed, held, started, heldAtCall, heldAtTry,
                   notFree, count0>>

\* pthread_mutex_trylock answers an error other than EBUSY inside
\* MXRecLockTryAcquire: a debug build panics at line 318, any other build
\* returns FALSE
TryAcquireTryFails(t) ==
    /\ MayFault /\ faults' = faults + 1
    /\ Running /\ pc[t] = "try_try"
    /\ err' = [err EXCEPT ![t] = EINVAL]
    /\ IF vmx86_debug
       THEN DoPanic /\ UNCHANGED <<pc, acquired>>
       ELSE /\ acquired' = [acquired EXCEPT ![t] = FALSE]
            /\ Goto(t, "try_ret")
            /\ UNCHANGED panicked
    /\ UNCHANGED <<otherVars, lockVars, op, contended, signalled, lockCount, loaded,
                   destroyed, held, started, heldAtCall, heldAtTry, notFree,
                   count0>>

\* pthread_mutex_unlock answers an error and the mutex stays taken: a debug
\* build panics at line 353, any other build returns from MXRecLockRelease
ReleaseUnlockFails(t) ==
    /\ MayFault /\ faults' = faults + 1
    /\ Running /\ pc[t] = "rel_unlock"
    /\ IF vmx86_debug
       THEN /\ DoPanic
            /\ err' = [err EXCEPT ![t] = EINVAL]
            /\ UNCHANGED <<pc, op, held>>
       ELSE ReleaseDone(t) /\ UNCHANGED <<err, panicked>>
    /\ UNCHANGED <<otherVars, lockVars, contended, acquired, signalled,
                   lockCount, loaded, destroyed, started, heldAtCall,
                   heldAtTry, notFree, count0>>

\* ------------------------------------------------------- specifications
Next ==
    \E t \in Threads :
       \/ AcquireCall(t) \/ AcquireCount(t) \/ AcquireIsOwner(t)
       \/ AcquireAssert(t) \/ AcquireAssertMax(t)
       \/ AcquireTry(t) \/ AcquireLock(t)
       \/ AcquireCheck(t) \/ AcquireReturn(t)
       \/ IncCountRead(t) \/ IncCountSetOwner(t) \/ IncCountLoad(t)
       \/ IncCountAdd(t)
       \/ TryAcquireCall(t) \/ TryAcquireTry(t) \/ TryAcquireAssert(t)
       \/ TryAcquireAssertMax(t) \/ TryAcquireReturn(t)
       \/ ReleaseCall(t) \/ ReleaseAssert(t) \/ ReleaseAssertMax(t)
       \/ ReleaseCount(t) \/ ReleaseUnlock(t)
       \/ DecCountAssert(t) \/ DecCountLoad(t) \/ DecCountSub(t)
       \/ DecCountRead(t) \/ DecCountSetNoOwner(t)
       \/ WaitCall(t) \/ WaitCapture(t) \/ WaitSleep(t) \/ WaitWake(t)
       \/ WaitReturn(t)
       \/ MXRecLockDestroy(t)

\* the native mutex works as documented
Spec == Init /\ [][Next]_vars

\* a step of a thread inside acquire, tryAcquire or release
ThreadStep(t) ==
    \/ AcquireCount(t) \/ AcquireIsOwner(t) \/ AcquireAssert(t)
    \/ AcquireAssertMax(t)
    \/ AcquireTry(t) \/ AcquireLock(t) \/ AcquireCheck(t) \/ AcquireReturn(t)
    \/ IncCountRead(t) \/ IncCountSetOwner(t) \/ IncCountLoad(t)
    \/ IncCountAdd(t)
    \/ TryAcquireTry(t) \/ TryAcquireAssert(t) \/ TryAcquireAssertMax(t)
    \/ TryAcquireReturn(t)
    \/ ReleaseAssert(t) \/ ReleaseAssertMax(t) \/ ReleaseCount(t)
    \/ ReleaseUnlock(t)
    \/ DecCountAssert(t) \/ DecCountLoad(t) \/ DecCountSub(t)
    \/ DecCountRead(t) \/ DecCountSetNoOwner(t)

\* acquire, tryAcquire and release called in any order by any thread, a
\* thread nesting its acquisitions up to MaxShallowHold
NextLive ==
    \E t \in Threads :
       \/ AcquireCall(t) /\ held[t] < MaxShallowHold
       \/ TryAcquireCall(t) \/ ReleaseCall(t) \/ ThreadStep(t)

\* acquire, tryAcquire and release only, the native mutex working as
\* documented
SpecCalls == Init /\ [][NextLive]_vars

NextFault ==
    \/ NextLive
    \/ \E t \in Threads :
          \/ MXRecLockDestroy(t)
          \/ AcquireTryFails(t) \/ AcquireLockFails(t)
          \/ TryAcquireTryFails(t) \/ ReleaseUnlockFails(t)

\* the native mutex may also answer errors to acquire, tryAcquire and
\* release; a thread nests its acquisitions up to MaxShallowHold
SpecFault == Init /\ [][NextFault]_vars

\* ------------------------------------------------ MXUserAcquisitionSample
\* MXUserBasicStatsSample: numSamples += 1; timeSum += value; minTime and
\* maxTime follow
MXUserBasicStatsSample(stats, value) ==
    [stats EXCEPT !.numSamples = @ + 1,
                  !.timeSum = U64Add(@, value),
                  !.minTime = U64Min(@, value),
                  !.maxTime = U64Max(@, value)]

\* MXUserAcquisitionSample with totalContentionTime fed by the failed
\* attempts only
MXUserAcquisitionSampleFailuresOnly(wasAcquired, wasContended, elapsedTime) ==
    /\ Running /\ acqStats.numAttempts < MaxSamples
    /\ LET attempted == [acqStats EXCEPT !.numAttempts = @ + 1]
           succeeded ==
              IF wasAcquired
              THEN MXUserBasicStatsSample(
                      [attempted EXCEPT !.numSuccesses = @ + 1], elapsedTime)
              ELSE [attempted EXCEPT
                      !.totalContentionTime = U64Add(@, elapsedTime)]
       IN  acqStats' =
              IF wasAcquired /\ wasContended
              THEN [succeeded EXCEPT
                      !.numSuccessesContended = @ + 1,
                      !.successContentionTime = U64Add(@, elapsedTime)]
              ELSE succeeded
    /\ timeWrapped' =
          (timeWrapped \/ (~wasAcquired
              /\ U64Carry4(acqStats.totalContentionTime, elapsedTime) > 0))
    /\ UNCHANGED <<recLockVars, panicked, singletonVars, rankVars>>

\* MXUserAcquisitionSample(stats, wasAcquired, wasContended, elapsedTime):
\* one more attempt; an acquired one is one more success and a sample of the
\* basic statistics, and if contended too one more contended success whose
\* time is added to successContentionTime; totalContentionTime takes the
\* time of every attempt
MXUserAcquisitionSample(wasAcquired, wasContended, elapsedTime) ==
    /\ Running /\ acqStats.numAttempts < MaxSamples
    /\ LET attempted == [acqStats EXCEPT !.numAttempts = @ + 1]
           succeeded ==
              IF wasAcquired
              THEN MXUserBasicStatsSample(
                      [attempted EXCEPT !.numSuccesses = @ + 1], elapsedTime)
              ELSE attempted
           contendedToo ==
              IF wasAcquired /\ wasContended
              THEN [succeeded EXCEPT
                      !.numSuccessesContended = @ + 1,
                      !.successContentionTime = U64Add(@, elapsedTime)]
              ELSE succeeded
       IN  acqStats' =
              [contendedToo EXCEPT
                 !.totalContentionTime = U64Add(@, elapsedTime)]
    /\ timeWrapped' =
          (timeWrapped
             \/ U64Carry4(acqStats.totalContentionTime, elapsedTime) > 0)
    /\ UNCHANGED <<recLockVars, panicked, singletonVars, rankVars>>

NextStats ==
    \E wasAcquired \in BOOLEAN, wasContended \in BOOLEAN,
       elapsedTime \in ElapsedTimes :
          MXUserAcquisitionSample(wasAcquired, wasContended, elapsedTime)

\* any sequence of samples on freshly set-up statistics
SpecStats == Init /\ [][NextStats]_vars

\* ------------------------------------------------ MXUserInternalSingleton
\* what a step of MXUserInternalSingleton leaves alone
SingletonFrame == UNCHANGED <<recLockVars, panicked, statsVars, rankVars>>

\* a thread calls MXUserInternalSingleton(storage)
SingletonCall(t) ==
    /\ Running /\ sPc[t] = "idle" /\ sCalls[t] < MaxSingletonCalls
    /\ sPc' = [sPc EXCEPT ![t] = "claim"]
    /\ UNCHANGED <<storage, sLock, locksBuilt, locksReady, sReturned, sCalls,
                   sWaited>>
    /\ SingletonFrame

\* SingletonClaim without the test of the slot: every caller takes the
\* construction right
SingletonClaimUnchecked(t) ==
    /\ Running /\ sPc[t] = "claim"
    /\ storage' = InProgress
    /\ sPc' = [sPc EXCEPT ![t] = "construct"]
    /\ UNCHANGED <<sLock, locksBuilt, locksReady, sReturned, sCalls, sWaited>>
    /\ SingletonFrame

\* the atomic claim of the construction right: the caller that moves the
\* slot from empty to in-progress constructs, every other caller waits
SingletonClaim(t) ==
    /\ Running /\ sPc[t] = "claim"
    /\ IF storage = NULL
       THEN /\ storage' = InProgress
            /\ sPc' = [sPc EXCEPT ![t] = "construct"]
            /\ UNCHANGED sWaited
       ELSE /\ sPc' = [sPc EXCEPT ![t] = "wait"]
            /\ sWaited' = IF storage = InProgress THEN sWaited \cup {t}
                                                  ELSE sWaited
            /\ UNCHANGED storage
    /\ UNCHANGED <<sLock, locksBuilt, locksReady, sReturned, sCalls>>
    /\ SingletonFrame

\* construction, first half: a new MXRecLock is allocated
SingletonConstruct(t) ==
    /\ Running /\ sPc[t] = "construct"
    /\ locksBuilt' = locksBuilt + 1
    /\ sLock' = [sLock EXCEPT ![t] = locksBuilt + 1]
    /\ sPc' = [sPc EXCEPT ![t] = "init"]
    /\ UNCHANGED <<storage, locksReady, sReturned, sCalls, sWaited>>
    /\ SingletonFrame

\* construction, second half: MXRecLockInit on the new lock
SingletonInit(t) ==
    /\ Running /\ sPc[t] = "init"
    /\ locksReady' = locksReady \cup {sLock[t]}
    /\ sPc' = [sPc EXCEPT ![t] = "publish"]
    /\ UNCHANGED <<storage, sLock, locksBuilt, sReturned, sCalls, sWaited>>
    /\ SingletonFrame

\* the constructor publishes the lock in the slot
SingletonPublish(t) ==
    /\ Running /\ sPc[t] = "publish"
    /\ storage' = sLock[t]
    /\ sPc' = [sPc EXCEPT ![t] = "return"]
    /\ UNCHANGED <<sLock, locksBuilt, locksReady, sReturned, sCalls, sWaited>>
    /\ SingletonFrame

\* a caller that did not get the construction right waits for the
\* publication and takes the lock from the slot
SingletonWait(t) ==
    /\ Running /\ sPc[t] = "wait"
    /\ storage \notin {NULL, InProgress}
    /\ sLock' = [sLock EXCEPT ![t] = storage]
    /\ sPc' = [sPc EXCEPT ![t] = "return"]
    /\ UNCHANGED <<storage, locksBuilt, locksReady, sReturned, sCalls, sWaited>>
    /\ SingletonFrame

\* return lock
SingletonReturn(t) ==
    /\ Running /\ sPc[t] = "return"
    /\ sReturned' = sReturned \cup {sLock[t]}
    /\ sCalls' = [sCalls EXCEPT ![t] = sCalls[t] + 1]
    /\ sLock' = [sLock EXCEPT ![t] = NULL]
    /\ sPc' = [sPc EXCEPT ![t] = "idle"]
    /\ UNCHANGED <<storage, locksBuilt, locksReady, sWaited>>
    /\ SingletonFrame

NextSingleton ==
    \E t \in Threads :
       \/ SingletonCall(t) \/ SingletonClaim(t) \/ SingletonConstruct(t)
       \/ SingletonInit(t) \/ SingletonPublish(t) \/ SingletonWait(t)
       \/ SingletonReturn(t)

\* threads calling MXUserInternalSingleton on one empty slot
SpecSingleton == Init /\ [][NextSingleton]_vars

\* ------------------------------------------------------- rank tracking
\* what a step of an operation on a ranked lock leaves alone
RankFrame == UNCHANGED <<recLockVars, statsVars, singletonVars, mxuserDebug>>

\* the thread's record holds a lock whose rank the rank of lock l does not
\* strictly exceed
RankViolation(t, l) == \E h \in rankHeld[t] : Rank(h) >= Rank(l)

\* a thread sets out to acquire a ranked lock it does not have, with or
\* without the rank check
RankAcquireCall(t, l, checkRank) ==
    /\ Running /\ rPc[t] = "idle" /\ rankOwner[l] # t
    /\ rPc' = [rPc EXCEPT ![t] = "track"]
    /\ rLock' = [rLock EXCEPT ![t] = l]
    /\ rCheck' = [rCheck EXCEPT ![t] = checkRank]
    /\ UNCHANGED <<rankOwner, rankHeld, panicked>>
    /\ RankFrame

\* MXUserAcquisitionTracking without the comparison of ranks
MXUserAcquisitionTrackingNoCheck(t) ==
    /\ Running /\ rPc[t] = "track"
    /\ rankHeld' = IF mxuserDebug
                   THEN [rankHeld EXCEPT ![t] = rankHeld[t] \cup {rLock[t]}]
                   ELSE rankHeld
    /\ rPc' = [rPc EXCEPT ![t] = "lock"]
    /\ UNCHANGED <<rankOwner, rLock, rCheck, panicked>>
    /\ RankFrame

\* MXUserAcquisitionTracking(header, checkRank), before the lock is
\* acquired: with MXUSER_DEBUG a checked acquisition whose rank does not
\* strictly exceed every rank held ends in MXUserDumpAndPanic, any other is
\* entered in the thread's record; without MXUSER_DEBUG it returns at once
\* (lines 426-431)
MXUserAcquisitionTracking(t) ==
    /\ Running /\ rPc[t] = "track"
    /\ IF mxuserDebug /\ rCheck[t] /\ RankViolation(t, rLock[t])
       THEN DoPanic /\ UNCHANGED <<rankHeld, rPc>>
       ELSE /\ rankHeld' =
                  IF mxuserDebug
                  THEN [rankHeld EXCEPT ![t] = rankHeld[t] \cup {rLock[t]}]
                  ELSE rankHeld
            /\ rPc' = [rPc EXCEPT ![t] = "lock"]
            /\ UNCHANGED panicked
    /\ UNCHANGED <<rankOwner, rLock, rCheck>>
    /\ RankFrame

\* the acquisition itself: the thread gets the lock once it is free
RankLock(t) ==
    /\ Running /\ rPc[t] = "lock"
    /\ rankOwner[rLock[t]] = NoThread
    /\ rankOwner' = [rankOwner EXCEPT ![rLock[t]] = t]
    /\ rPc' = [rPc EXCEPT ![t] = "idle"]
    /\ rLock' = [rLock EXCEPT ![t] = 0]
    /\ rCheck' = [rCheck EXCEPT ![t] = FALSE]
    /\ UNCHANGED <<rankHeld, panicked>>
    /\ RankFrame

\* a thread sets out to release a ranked lock it has
RankReleaseCall(t, l) ==
    /\ Running /\ rPc[t] = "idle" /\ rankOwner[l] = t
    /\ rPc' = [rPc EXCEPT ![t] = "untrack"]
    /\ rLock' = [rLock EXCEPT ![t] = l]
    /\ UNCHANGED <<rankOwner, rankHeld, rCheck, panicked>>
    /\ RankFrame

\* MXUserReleaseTracking(header): with MXUSER_DEBUG the lock is removed from
\* the thread's record; without it the call returns at once (lines 433-438)
MXUserReleaseTracking(t) ==
    /\ Running /\ rPc[t] = "untrack"
    /\ rankHeld' = IF mxuserDebug
                   THEN [rankHeld EXCEPT ![t] = rankHeld[t] \ {rLock[t]}]
                   ELSE rankHeld
    /\ rPc' = [rPc EXCEPT ![t] = "unlock"]
    /\ UNCHANGED <<rankOwner, rLock, rCheck, panicked>>
    /\ RankFrame

\* the release itself
RankUnlock(t) ==
    /\ Running /\ rPc[t] = "unlock"
    /\ rankOwner' = [rankOwner EXCEPT ![rLock[t]] = NoThread]
    /\ rPc' = [rPc EXCEPT ![t] = "idle"]
    /\ rLock' = [rLock EXCEPT ![t] = 0]
    /\ UNCHANGED <<rankHeld, rCheck, panicked>>
    /\ RankFrame

NextRank ==
    \E t \in Threads :
       \/ \E l \in RankedLocks, checkRank \in BOOLEAN :
             RankAcquireCall(t, l, checkRank)
       \/ MXUserAcquisitionTracking(t) \/ RankLock(t)
       \/ \E l \in RankedLocks : RankReleaseCall(t, l)
       \/ MXUserReleaseTracking(t) \/ RankUnlock(t)

\* threads acquiring and releasing two locks of ranks 1 and 2, in any order
SpecRank == InitRank /\ [][NextRank]_vars

NextMisuse ==
    \/ NextLive
    \/ \E t \in Threads : ReleaseUnheldCall(t) \/ MXRecLockDestroy(t)

\* acquire, tryAcquire, release and destroy, release being called by threads
\* that hold nothing too; a thread nests its acquisitions up to
\* MaxShallowHold
SpecMisuse == Init /\ [][NextMisuse]_vars

\* pre-emptible native threads: a thread that can take a step inside its
\* operation is eventually scheduled
SpecLive ==
    Init /\ [][NextLive]_vars /\ \A t \in Threads : WF_vars(ThreadStep(t))

\* ------------------------------------------------------------ properties
\* no thread is in the middle of an operation that changes the lock: the
\* thread that has the native mutex, if any, is between two operations
AtBoundary == \A t \in Threads : nativeLock = t => pc[t] = "idle"

\* C1 (mutual exclusion): at most one thread at a time is between a
\* successful acquire/tryAcquire and its matching final release; a counter
\* of the threads inside never exceeds 1.
C1_MutualExclusion == Cardinality({t \in Threads : InCritical(t)}) <= 1

\* one thread is inside while another is blocked in the blocking native
\* acquire
C1_Witness ==
    \E t, u \in Threads : t # u /\ InCritical(t) /\ pc[u] = "acq_lock"

\* C2 (bound enforcement): 0 <= referenceCount < MXUSER_MAX_REC_DEPTH in
\* every reachable state, an acquire at depth MXUSER_MAX_REC_DEPTH - 1 being
\* rejected.
C2_BoundEnforced ==
    referenceCount >= 0 /\ referenceCount < MXUSER_MAX_REC_DEPTH

\* C3 (re-entrance): while a single thread is the only user of the lock it
\* never reaches the blocking native acquire, every acquire of it returns not
\* contended, the count is the number of its acquisitions not yet released
\* (k after the k-th acquire, 0 after the last release and not before), and
\* once everything is released destroy ends without error.
C3_Reentrance ==
    \A t \in Threads :
       started = {t} =>
          /\ pc[t] # "acq_lock"
          /\ pc[t] = "acq_ret" =>
                ~contended[t] /\ referenceCount = held[t] + 1
          /\ pc[t] = "idle" => referenceCount = held[t]
          /\ held[t] = 0 => ~panicked /\ (destroyed => err[t] = 0)

\* the only thread returns from its 15th nested acquire
C3_Witness ==
    \E t \in Threads :
       /\ started = {t} /\ pc[t] = "acq_ret"
       /\ held[t] = MXUSER_MAX_REC_DEPTH - 2
       /\ referenceCount = MXUSER_MAX_REC_DEPTH - 1

\* C4 as stated: when another thread holds the lock while B calls acquire,
\* B returns contended and only after that thread's final release; when the
\* lock is free during the whole call B returns not contended; a re-entrant
\* acquire returns not contended.
C4_ContentionFlagAtCall ==
    \A t \in Threads :
       pc[t] = "acq_ret" =>
          /\ heldAtCall[t] => contended[t] /\ ~OtherHolds(t)
          /\ ~notFree[t] => ~contended[t]
          /\ held[t] > 0 => ~contended[t]

\* C4 as amended (contention flag): when another thread holds the lock at
\* the native attempt of B's acquire, B returns contended; when another
\* thread holds the lock at B's call or at B's native attempt, B returns only
\* after that thread's final release; when the lock is free during the whole
\* call B returns not contended; a re-entrant acquire returns not contended.
C4_ContentionFlag ==
    \A t \in Threads :
       pc[t] = "acq_ret" =>
          /\ heldAtTry[t] => contended[t]
          /\ (heldAtCall[t] \/ heldAtTry[t]) => ~OtherHolds(t)
          /\ ~notFree[t] => ~contended[t]
          /\ held[t] > 0 => ~contended[t]

\* an acquire that met a holder returns contended
C4_Witness ==
    \E t \in Threads :
       pc[t] = "acq_ret" /\ heldAtCall[t] /\ heldAtTry[t] /\ contended[t]

\* the state part of C5: the attempt is enabled, and what a successful
\* tryAcquire returns with
C5_TryInv ==
    \A t \in Threads :
       /\ (Running /\ pc[t] = "try_try") => ENABLED TryAcquireTry(t)
       /\ (pc[t] = "try_ret" /\ acquired[t]) =>
             /\ referenceCount = count0[t] + 1
             /\ count0[t] = 0 => nativeThreadID = t
             /\ nativeLock = t

\* the step part of C5: the step of a tryAcquire that finds the mutex busy
C5_TryBusyStep ==
    \A t \in Threads :
       (pc[t] = "try_try" /\ pc'[t] # "try_try" /\ nativeLock # Unlocked) =>
          /\ pc'[t] = "try_ret" /\ ~acquired'[t]
          /\ ~panicked'
          /\ UNCHANGED lockVars

\* C5 (tryAcquire): the native attempt of tryAcquire is always possible (it
\* never waits); a tryAcquire that got the mutex returns TRUE with the count
\* one above what it found and, if it found 0, with the caller as owner; a
\* tryAcquire that finds the mutex busy returns FALSE in that step, the
\* process running, and referenceCount, the owner and the native mutex as
\* they were.
C5_TryAcquire == []C5_TryInv /\ [][C5_TryBusyStep]_vars

\* a tryAcquire returns FALSE from a lock another thread holds
C5_Witness ==
    \E t \in Threads :
       /\ pc[t] = "try_ret" /\ ~acquired[t] /\ err[t] = EBUSY
       /\ referenceCount > 0 /\ nativeThreadID # t

\* a thread inside acquire that is past the native calls and their checks
PastNativeCalls(t) ==
    op[t] = "acquire" /\ pc[t] \in {"inc_count", "inc_owner", "inc_load", "inc_add", "acq_ret"}

\* C6 (a failed native call in acquire is fatal in every build): an acquire
\* never goes on to set the owner, increment the count or return without
\* holding the native mutex.
C6_FailureFatalAnyBuild ==
    \A t \in Threads : PastNativeCalls(t) => nativeLock = t

\* C7 (destroy of a held lock is fatal): destroy never completes on a lock
\* whose referenceCount is above 0.
C7_DestroyHeldFatal == destroyed => referenceCount = 0

\* C8 (owner validity): between operations the owner is "nobody" iff the
\* count is 0, and with a count above 0 the owner is the one thread whose
\* acquisitions are outstanding.
C8_OwnerValidity ==
    AtBoundary =>
       /\ nativeThreadID = MXUSER_INVALID_OWNER <=> referenceCount = 0
       /\ referenceCount > 0 =>
             /\ nativeThreadID \in Threads
             /\ InCritical(nativeThreadID)
             /\ ~OtherHolds(nativeThreadID)

\* between operations: one thread owns the lock at depth 2, and the other
\* has acquired and released it before
C8_Witness ==
    \E t, u \in Threads :
       /\ t # u /\ AtBoundary /\ started = Threads
       /\ pc[t] = "idle" /\ pc[u] = "idle" /\ held[u] = 0
       /\ nativeThreadID = t /\ referenceCount = 2

\* the state part of C9: the native mutex and the count between operations
C9_ReleaseInv ==
    AtBoundary =>
       /\ nativeLock # Unlocked <=> referenceCount > 0
       /\ \A t \in Threads :
             InCritical(t) => nativeLock = t /\ referenceCount = held[t]
       /\ (\A t \in Threads : ~InCritical(t)) => nativeLock = Unlocked

\* the step part of C9: what one step of release may change
C9_ReleaseStep ==
    \A t \in Threads :
       (op[t] = "release" /\ pc'[t] # pc[t]) =>
          /\ referenceCount' # referenceCount =>
                referenceCount' = referenceCount - 1
          /\ nativeThreadID' # nativeThreadID =>
                referenceCount' = 0 /\ nativeThreadID' = MXUSER_INVALID_OWNER
          /\ nativeLock' # nativeLock =>
                /\ referenceCount' = 0 /\ nativeLock' = Unlocked
                /\ nativeThreadID' = MXUSER_INVALID_OWNER
          /\ (pc'[t] = "idle" /\ referenceCount' > 0) =>
                nativeLock' = t /\ nativeThreadID' = t

\* C9 (release): a step of release changes the count by -1 only, and frees
\* the native mutex or clears the owner only with the count at 0; between
\* operations the native mutex is held iff the count is above 0, by the
\* thread whose outstanding acquisitions the count numbers, and is free once
\* every thread has released what it acquired.
C9_Release == []C9_ReleaseInv /\ [][C9_ReleaseStep]_vars

\* a final release is about to free the native mutex another thread is
\* blocked on
C9_Witness ==
    \E t, u \in Threads :
       /\ t # u /\ pc[t] = "rel_unlock" /\ held[t] = 1
       /\ referenceCount = 0 /\ nativeThreadID = MXUSER_INVALID_OWNER
       /\ pc[u] = "acq_lock"

\* C10 (wait keeps the depth): a wait called by the owner at depth d goes to
\* sleep with the count at 0, no owner and the native mutex free, does not
\* have the native mutex while it sleeps, and returns, by signal or by
\* timeout, with the count at d again and the caller as owner.
C10_WaitKeepsDepth ==
    \A t \in Threads :
       /\ pc[t] = "wait_cond" =>
             /\ referenceCount = 0
             /\ nativeThreadID = MXUSER_INVALID_OWNER
             /\ ENABLED WaitSleep(t)
       /\ pc[t] = "wait_sleep" =>
             /\ nativeLock # t /\ nativeThreadID # t
             /\ nativeLock = Unlocked =>
                   referenceCount = 0 /\ nativeThreadID = MXUSER_INVALID_OWNER
       /\ pc[t] = "wait_ret" =>
             /\ lockCount[t] = ToUint32(held[t])
             /\ referenceCount = held[t]
             /\ nativeThreadID = t /\ nativeLock = t

\* a wait called at depth 2 returns by timeout, the lock being shared with
\* another thread
C10_Witness ==
    \E t \in Threads :
       /\ pc[t] = "wait_ret" /\ held[t] = 2 /\ referenceCount = 2
       /\ ~signalled[t] /\ started = Threads

\* C14 (slow-path assertion): a thread that has just obtained the native
\* mutex in the non-re-entrant branch of acquire, by the non-blocking or by
\* the blocking native call, has it with referenceCount at 0 and no error:
\* the Panic and the ASSERT of lines 288-293 are not reached.
C14_SlowPathAssert ==
    \A t \in Threads :
       pc[t] = "acq_check" =>
          referenceCount = 0 /\ err[t] = 0 /\ nativeLock = t

\* a thread has obtained the native mutex by the blocking call, after the
\* thread that held the lock when it called released it
C14_Witness ==
    \E t, u \in Threads :
       /\ t # u /\ pc[t] = "acq_check" /\ contended[t] /\ heldAtCall[t]
       /\ started = Threads /\ held[u] = 0

\* C15 (benign ownership race): a thread is in the re-entrant branch of
\* acquire only while it holds the lock: it has the native mutex, it is the
\* owner, and the count is the number of its outstanding acquisitions.
C15_FastPathOnlyHolder ==
    \A t \in Threads :
       pc[t] \in {"acq_assert", "acq_assert_max"} =>
          /\ nativeLock = t /\ nativeThreadID = t
          /\ held[t] > 0 /\ referenceCount = held[t]

\* a thread that holds nothing has read a count other than 0 and is about to
\* read the owner, the lock having been released in between: the pair it
\* acts on is stale
C15_Witness ==
    \E t \in Threads :
       /\ pc[t] = "acq_owner" /\ held[t] = 0
       /\ referenceCount = 0 /\ nativeThreadID = MXUSER_INVALID_OWNER
       /\ nativeLock = Unlocked

\* the state part of C19: a tryAcquire that returns TRUE found the count
\* at 0 and was called by a thread that held nothing
C19_TryInv ==
    \A t \in Threads :
       (pc[t] = "try_ret" /\ acquired[t]) => count0[t] = 0 /\ held[t] = 0

\* the step part of C19: a call of tryAcquire goes to the native attempt, and
\* the native attempt of the owner fails
C19_TryOwnerStep ==
    \A t \in Threads :
       /\ (pc[t] = "idle" /\ op'[t] = "tryAcquire") => pc'[t] = "try_try"
       /\ (pc[t] = "try_try" /\ pc'[t] # "try_try"
             /\ nativeThreadID = t /\ referenceCount >= 1) =>
             /\ pc'[t] = "try_ret" /\ ~acquired'[t] /\ err'[t] = EBUSY
             /\ UNCHANGED lockVars

\* C19 (tryAcquire is not re-entrant): tryAcquire goes to the native
\* non-blocking attempt without looking at the owner; called by the thread
\* that owns the lock (referenceCount >= 1) it returns FALSE and leaves
\* referenceCount, the owner and the native mutex as they were; it returns
\* TRUE only when referenceCount was 0.
C19_TryNotReentrant == []C19_TryInv /\ [][C19_TryOwnerStep]_vars

\* the owner at depth 2 gets FALSE from tryAcquire
C19_Witness ==
    \E t \in Threads :
       /\ pc[t] = "try_ret" /\ ~acquired[t] /\ err[t] = EBUSY
       /\ held[t] = 2 /\ nativeThreadID = t /\ referenceCount = 2

\* a step changes referenceCount or the owner only if it is a step of the
\* thread that has the native mutex
C16_HolderStep ==
    (referenceCount' # referenceCount \/ nativeThreadID' # nativeThreadID) =>
       \E t \in Threads : pc'[t] # pc[t] /\ nativeLock = t

\* C16 as stated (whichever thread calls acquire, tryAcquire or release):
\* every change of referenceCount or of the owner is made by the thread that
\* has the native mutex at that moment.
C16_ExclusiveMutationAnyCaller == [][C16_HolderStep]_vars

\* C16 as amended: until release is called by a thread that has no
\* acquisition outstanding, every change of referenceCount or of the owner
\* is made by the thread that has the native mutex at that moment.
C16_ExclusiveMutation == [][~misused => C16_HolderStep]_vars

\* the holder is about to decrement the count in a release while the other
\* thread, which holds nothing, is inside acquire
C16_Witness ==
    \E t, u \in Threads :
       /\ t # u /\ ~misused
       /\ pc[t] = "dec_sub" /\ op[t] = "release" /\ nativeLock = t
       /\ op[u] = "acquire" /\ pc[u] = "acq_owner"

\* the step of release's assertion with the count at 0 ends the process and
\* leaves the lock as it is
C17_AssertStep ==
    \A t \in Threads :
       (pc[t] = "rel_assert" /\ referenceCount = 0
          /\ (pc'[t] # pc[t] \/ panicked')) =>
          panicked' /\ UNCHANGED lockVars

\* C17 (release of a lock nobody holds is fatal): a release whose assertion
\* finds referenceCount at 0 ends the process with the count, the owner and
\* the native mutex as they were, and the count never goes below 0.
C17_ReleaseUnheldFatalAnyBuild ==
    [](referenceCount >= 0) /\ [][C17_AssertStep]_vars

\* every thread other than b has released what it acquired and is inside no
\* operation
OthersQuiet(b) ==
    \A a \in Threads \ {b} : held[a] = 0 /\ pc[a] = "idle"

\* thread b has returned from a contended acquire as the owner at depth 1
ReturnedAsOwner(b) ==
    /\ pc[b] = "acq_ret" /\ contended[b]
    /\ nativeLock = b /\ nativeThreadID = b /\ referenceCount = 1

\* the step part of C18: a thread blocked in the native acquire does not
\* move while another thread holds the lock
C18_StaysBlocked ==
    \A b \in Threads :
       (pc[b] = "acq_lock" /\ OtherHolds(b)) => pc'[b] = "acq_lock"

\* C18 (progress of a blocked acquire): with every thread scheduled fairly,
\* if the other threads end up having released all they acquired and
\* acquiring no more, a thread blocked in the native acquire of acquire
\* returns from it, contended, as the owner with referenceCount = 1; as long
\* as another thread holds the lock it stays blocked.
C18_Progress ==
    /\ \A b \in Threads :
          <>[]OthersQuiet(b) => (pc[b] = "acq_lock" ~> ReturnedAsOwner(b))
    /\ [][C18_StaysBlocked]_vars

\* a thread returns from the blocking acquire after the holder, which had
\* the lock at depth 2 when the thread blocked, released it
C18_Witness ==
    \E b \in Threads :
       /\ ReturnedAsOwner(b) /\ OthersQuiet(b)
       /\ heldAtCall[b] /\ heldAtTry[b] /\ started = Threads

\* the counters of C13: attempts >= successes >= contended successes >= 0
C13_CountersOrdered ==
    /\ acqStats.numAttempts >= acqStats.numSuccesses
    /\ acqStats.numSuccesses >= acqStats.numSuccessesContended
    /\ acqStats.numSuccessesContended >= 0

\* C13 as stated (arbitrary elapsed times): after any sequence of samples
\* numAttempts >= numSuccesses >= numSuccessesContended >= 0 and
\* successContentionTime <= totalContentionTime.
C13_StatsConservationAnyTime ==
    /\ C13_CountersOrdered
    /\ U64LessEq(acqStats.successContentionTime, acqStats.totalContentionTime)

\* C13 as amended: after any sequence of samples numAttempts >= numSuccesses
\* >= numSuccessesContended >= 0, and successContentionTime <=
\* totalContentionTime as long as the elapsed times passed sum to less than
\* 2^64.
C13_StatsConservation ==
    /\ C13_CountersOrdered
    /\ ~timeWrapped =>
          U64LessEq(acqStats.successContentionTime,
                    acqStats.totalContentionTime)

\* three samples, one failed, one acquired, one acquired and contended, the
\* contended one with a time of 2^63
C13_Witness ==
    /\ acqStats.numAttempts = 3 /\ acqStats.numSuccesses = 2
    /\ acqStats.numSuccessesContended = 1
    /\ acqStats.successContentionTime = <<0, 0, 0, 32768>>
    /\ U64Less(acqStats.successContentionTime, acqStats.totalContentionTime)
    /\ ~timeWrapped

\* C11 (singleton bootstrap): however the calls of the threads on one
\* initially empty slot interleave, at most one lock is constructed, exactly
\* one once a caller is about to return, every caller returns that lock, and
\* a caller returns only a lock whose construction is over and which the
\* slot holds.
C11_SingletonOnce ==
    /\ locksBuilt <= 1
    /\ Cardinality(sReturned) <= 1
    /\ \A l \in sReturned : l \in locksReady /\ storage = l
    /\ \A t \in Threads :
          sPc[t] = "return" =>
             /\ locksBuilt = 1 /\ sLock[t] = storage
             /\ sLock[t] \in locksReady /\ sReturned \subseteq {sLock[t]}

\* every thread has returned from a call, and one of them had found the
\* slot claimed by the other and waited
C11_Witness ==
    /\ \A t \in Threads : sCalls[t] >= 1 /\ sPc[t] = "idle"
    /\ sWaited # {} /\ locksBuilt = 1 /\ sReturned = {storage}

\* the state part of C12: with rank tracking the record of a thread is the
\* locks it has, plus the one it is about to acquire and less the one it is
\* about to give back
C12_RecordInv ==
    mxuserDebug =>
       \A t \in Threads :
          rankHeld[t] =
             ({l \in RankedLocks : rankOwner[l] = t}
                 \cup (IF rPc[t] = "lock" THEN {rLock[t]} ELSE {}))
             \ (IF rPc[t] = "unlock" THEN {rLock[t]} ELSE {})

\* the step part of C12: what the tracking call of a checked acquisition
\* does with rank tracking, and what the tracking call of a release does
C12_TrackStep ==
    \A t \in Threads :
       /\ (mxuserDebug /\ rPc[t] = "track" /\ rCheck[t]
             /\ RankViolation(t, rLock[t])
             /\ (rPc'[t] # rPc[t] \/ panicked')) =>
             panicked' /\ UNCHANGED <<rankOwner, rankHeld, rPc>>
       /\ (mxuserDebug /\ rPc[t] = "track" /\ ~RankViolation(t, rLock[t])
             /\ rPc'[t] # rPc[t]) =>
             /\ ~panicked' /\ rPc'[t] = "lock"
             /\ rankHeld'[t] = rankHeld[t] \cup {rLock[t]}
       /\ (mxuserDebug /\ rPc[t] = "untrack" /\ rPc'[t] # rPc[t]) =>
             rLock[t] \notin rankHeld'[t]

\* C12 (rank violation detection): with rank tracking, the checked attempt
\* of a thread that holds the lock of rank 2 to acquire the lock of rank 1
\* ends the process before the lock is acquired or recorded; the attempt of
\* a thread that holds the lock of rank 1 to acquire the lock of rank 2 goes
\* on to the acquisition; and after a release the record of the thread no
\* longer holds the released lock.
C12_RankTracking == []C12_RecordInv /\ [][C12_TrackStep]_vars

\* the process has ended at the rank check of a thread that holds the lock
\* of rank 2 and asked for the lock of rank 1, the other thread holding
\* nothing
C12_Witness ==
    \E t \in Threads :
       /\ mxuserDebug /\ panicked
       /\ rPc[t] = "track" /\ rLock[t] = 1 /\ rCheck[t]
       /\ rankOwner[2] = t /\ rankHeld[t] = {2} /\ rankOwner[1] = NoThread

====
